---- MODULE Spec2Model ----
(***************************************************************************)
(* A model of the backgammon rules engine: the board (rules/board.rs) and  *)
(* the players with their dice (rules/dices.rs).                           *)
(*                                                                         *)
(* The operations of Board are operators from a board (and the call's      *)
(* arguments) to the board they leave and the value they return; the       *)
(* actions below apply them to the state and record the call in `last`.    *)
(***************************************************************************)
EXTENDS Integers, Sequences, FiniteSets, TLC

VARIABLES
    raw_board,        \* Board.raw_board: <<PlayerBoard of Player0, PlayerBoard of Player1>>
    overflow_checks,  \* the build: TRUE when integer overflow panics (debug), FALSE when it wraps (release)
    last,             \* the last call: its name, its arguments and what it returned
    calls,            \* the number of calls made so far
    player1,          \* Players.player1
    player2,          \* Players.player2
    current,          \* Players.current
    seeds             \* the two seeds Players::new was given

vars == <<raw_board, overflow_checks, last, calls, player1, player2, current, seeds>>

(***************************************************************************)
(* Bounds of the model.                                                    *)
(***************************************************************************)
\* calls of set, set_bar, set_off, blocked and generate_a_possible_moves in one run
MaxCalls == 4
\* calls of apply_move in one run
MaxMoves == 3
\* calls of switch in one run
MaxSwitches == 4

(***************************************************************************)
(* Types of the program.                                                   *)
(***************************************************************************)
Player0 == "Player0"
Player1 == "Player1"
Nobody == "Nobody"
Player == {Player0, Player1, Nobody}

\* BoardPosition
Bar == <<"Bar">>
Off == <<"Off">>
Field(i) == <<"Field", i>>

MoveChecker(player, from, to) == [player |-> player, from |-> from, to |-> to]

\* the number of fields of a PlayerBoard, and the last index of one
NumFields == 24
LastField == 23

PlayerBoardDefault ==
    [board |-> [i \in 0..LastField |->
                    CASE i = 5 -> 5
                      [] i = 7 -> 3
                      [] i = 12 -> 5
                      [] i = 23 -> 2
                      [] OTHER -> 0],
     bar |-> 0,
     off |-> 0]

BoardNew == <<PlayerBoardDefault, PlayerBoardDefault>>

(***************************************************************************)
(* Machine integers.  An addition that leaves the type's range panics in a *)
(* build with overflow checks and wraps in a build without.                *)
(***************************************************************************)
InI8(x) == x >= -128 /\ x <= 127
InU8(x) == x >= 0 /\ x <= 255
\* `x as i8` of a u8
AsI8(x) == IF x > 127 THEN x - 256 ELSE x
\* `x as u8` of an i8
AsU8(x) == IF x < 0 THEN x + 256 ELSE x
WrapI8(x) == ((x + 128) % 256) - 128
WrapU8(x) == x % 256

(***************************************************************************)
(* Results.  A mutator returns the board it leaves and Ok, an Error        *)
(* (FieldInvalid, PlayerInvalid, FieldBlocked, MoveInvalid) or Panic (the  *)
(* call never returned).                                                   *)
(***************************************************************************)
Done(rb, res) == [board |-> rb, res |-> res]

\* get_raw_board_for_player, get_mut_raw_board_for_player: the index into raw_board
get_raw_board_for_player(player) ==
    CASE player = Player0 -> [res |-> "Ok", idx |-> 1]
      [] player = Player1 -> [res |-> "Ok", idx |-> 2]
      [] OTHER -> [res |-> "PlayerInvalid", idx |-> 0]

\* get_raw_board_for_opponent, get_mut_raw_board_for_opponent
get_raw_board_for_opponent(player) ==
    CASE player = Player0 -> [res |-> "Ok", idx |-> 2]
      [] player = Player1 -> [res |-> "Ok", idx |-> 1]
      [] OTHER -> [res |-> "PlayerInvalid", idx |-> 0]

\* blocked that never says true: a point the opponent holds is open
blocked_never(rb, player, field) ==
    IF field > 23 THEN [res |-> "FieldInvalid", flag |-> FALSE]
    ELSE LET opponent == get_raw_board_for_opponent(player) IN
         IF opponent.res # "Ok" THEN [res |-> opponent.res, flag |-> FALSE]
         ELSE [res |-> "Ok", flag |-> FALSE]

\* blocked, reading the opponent's board at `field` instead of the mirrored 23 - field
blocked_unmirrored(rb, player, field) ==
    IF field > 23 THEN [res |-> "FieldInvalid", flag |-> FALSE]
    ELSE LET opponent == get_raw_board_for_opponent(player) IN
         IF opponent.res # "Ok" THEN [res |-> opponent.res, flag |-> FALSE]
         ELSE [res |-> "Ok", flag |-> rb[opponent.idx].board[field] > 1]

\* Board::blocked
blocked(rb, player, field) ==
    IF field > 23 THEN [res |-> "FieldInvalid", flag |-> FALSE]
    ELSE LET opponent == get_raw_board_for_opponent(player) IN
         IF opponent.res # "Ok" THEN [res |-> opponent.res, flag |-> FALSE]
         ELSE [res |-> "Ok", flag |-> rb[opponent.idx].board[23 - field] > 1]

\* set_hit that hits nothing: the opponent's checkers stay where they are
set_hit_none(rb, player, field, oc) ==
    LET opponent == get_raw_board_for_opponent(player) IN
    IF opponent.res # "Ok" THEN Done(rb, opponent.res) ELSE Done(rb, "Ok")

\* set_hit, hitting the opponent's `field` instead of the mirrored 23 - field
set_hit_unmirrored(rb, player, field, oc) ==
    LET opponent == get_raw_board_for_opponent(player) IN
    IF opponent.res # "Ok" THEN Done(rb, opponent.res)
    ELSE LET o == opponent.idx
             bar == rb[o].bar + rb[o].board[field]
         IN  IF ~InU8(bar) /\ oc THEN Done(rb, "Panic")
             ELSE Done([rb EXCEPT ![o].bar = WrapU8(bar),
                                  ![o].board[field] = 0], "Ok")

\* set_hit, clearing the opponent's point without adding its checkers to the bar
set_hit_lost(rb, player, field, oc) ==
    LET opponent == get_raw_board_for_opponent(player) IN
    IF opponent.res # "Ok" THEN Done(rb, opponent.res)
    ELSE Done([rb EXCEPT ![opponent.idx].board[23 - field] = 0], "Ok")

\* the hit at the end of Board::set, on a board whose own field is written
set_hit(rb, player, field, oc) ==
    LET opponent == get_raw_board_for_opponent(player) IN
    IF opponent.res # "Ok" THEN Done(rb, opponent.res)
    ELSE LET o == opponent.idx
             bar == rb[o].bar + rb[o].board[23 - field]
         IN  IF ~InU8(bar) /\ oc THEN Done(rb, "Panic")
             ELSE Done([rb EXCEPT ![o].bar = WrapU8(bar),
                                  ![o].board[23 - field] = 0], "Ok")

\* Board::set, hitting before it looks at the new count: a MoveInvalid leaves the hit done
set_hit_first(rb, player, field, amount, oc) ==
    IF field > 23 THEN Done(rb, "FieldInvalid")
    ELSE LET b == blocked(rb, player, field) IN
         IF b.res # "Ok" THEN Done(rb, b.res)
         ELSE IF b.flag THEN Done(rb, "FieldBlocked")
         ELSE LET me == get_raw_board_for_player(player) IN
              IF me.res # "Ok" THEN Done(rb, me.res)
              ELSE LET sum == AsI8(rb[me.idx].board[field]) + amount
                       new == WrapI8(sum)
                       hit == set_hit(rb, player, field, oc)
                   IN  IF ~InI8(sum) /\ oc THEN Done(rb, "Panic")
                       ELSE IF hit.res # "Ok" THEN hit
                       ELSE IF new < 0 THEN Done(hit.board, "MoveInvalid")
                       ELSE Done([hit.board EXCEPT ![me.idx].board[field] = AsU8(new)], "Ok")

\* Board::set
set(rb, player, field, amount, oc) ==
    IF field > 23 THEN Done(rb, "FieldInvalid")
    ELSE LET b == blocked(rb, player, field) IN
         IF b.res # "Ok" THEN Done(rb, b.res)
         ELSE IF b.flag THEN Done(rb, "FieldBlocked")
         ELSE LET me == get_raw_board_for_player(player) IN
              IF me.res # "Ok" THEN Done(rb, me.res)
              ELSE LET sum == AsI8(rb[me.idx].board[field]) + amount
                       new == WrapI8(sum)
                   IN  IF ~InI8(sum) /\ oc THEN Done(rb, "Panic")
                       ELSE IF new < 0 THEN Done(rb, "MoveInvalid")
                       ELSE set_hit([rb EXCEPT ![me.idx].board[field] = AsU8(new)],
                                    player, field, oc)

\* Board::set_bar
set_bar(rb, player, amount, oc) ==
    LET me == get_raw_board_for_player(player) IN
    IF me.res # "Ok" THEN Done(rb, me.res)
    ELSE LET sum == AsI8(rb[me.idx].bar) + amount
             new == WrapI8(sum)
         IN  IF ~InI8(sum) /\ oc THEN Done(rb, "Panic")
             ELSE IF new < 0 THEN Done(rb, "MoveInvalid")
             ELSE Done([rb EXCEPT ![me.idx].bar = AsU8(new)], "Ok")

\* Board::set_off
set_off(rb, player, amount, oc) ==
    LET me == get_raw_board_for_player(player) IN
    IF me.res # "Ok" THEN Done(rb, me.res)
    ELSE LET off == rb[me.idx].off + amount IN
         IF ~InU8(off) /\ oc THEN Done(rb, "Panic")
         ELSE Done([rb EXCEPT ![me.idx].off = WrapU8(off)], "Ok")

\* `first?; second`: the second step runs on the board the first leaves, when it returned Ok
and_then_set(first, player, field, amount, oc) ==
    IF first.res # "Ok" THEN first ELSE set(first.board, player, field, amount, oc)

\* and_then_set_off without the `?`: set_off runs whether the first step failed or not
and_then_set_off_always(first, player, amount, oc) ==
    set_off(first.board, player, amount, oc)

and_then_set_off(first, player, amount, oc) ==
    IF first.res # "Ok" THEN first ELSE set_off(first.board, player, amount, oc)

\* apply_move with one more arm: Bar -> Off bears a checker off from the bar
apply_move_bar_off(rb, mc, oc) ==
    CASE mc.from = Bar /\ mc.to[1] = "Field" ->
            and_then_set(set_bar(rb, mc.player, -1, oc), mc.player, mc.to[2], 1, oc)
      [] mc.from = Bar /\ mc.to = Off ->
            and_then_set_off(set_bar(rb, mc.player, -1, oc), mc.player, 1, oc)
      [] mc.from[1] = "Field" /\ mc.to[1] = "Field" ->
            and_then_set(set(rb, mc.player, mc.from[2], -1, oc), mc.player, mc.to[2], 1, oc)
      [] mc.from[1] = "Field" /\ mc.to = Off ->
            and_then_set_off(set(rb, mc.player, mc.from[2], -1, oc), mc.player, 1, oc)
      [] OTHER -> Done(rb, "MoveInvalid")

\* apply_move, giving back the board it was called on when a step fails
apply_move_rollback(rb, mc, oc) ==
    LET r == CASE mc.from = Bar /\ mc.to[1] = "Field" ->
                    and_then_set(set_bar(rb, mc.player, -1, oc), mc.player, mc.to[2], 1, oc)
               [] mc.from[1] = "Field" /\ mc.to[1] = "Field" ->
                    and_then_set(set(rb, mc.player, mc.from[2], -1, oc),
                                 mc.player, mc.to[2], 1, oc)
               [] mc.from[1] = "Field" /\ mc.to = Off ->
                    and_then_set_off(set(rb, mc.player, mc.from[2], -1, oc), mc.player, 1, oc)
               [] OTHER -> Done(rb, "MoveInvalid")
    IN  IF r.res = "Ok" THEN r ELSE Done(rb, r.res)

\* Board::apply_move
apply_move(rb, mc, oc) ==
    CASE mc.from = Bar /\ mc.to[1] = "Field" ->
            and_then_set(set_bar(rb, mc.player, -1, oc), mc.player, mc.to[2], 1, oc)
      [] mc.from[1] = "Field" /\ mc.to[1] = "Field" ->
            and_then_set(set(rb, mc.player, mc.from[2], -1, oc), mc.player, mc.to[2], 1, oc)
      [] mc.from[1] = "Field" /\ mc.to = Off ->
            and_then_set_off(set(rb, mc.player, mc.from[2], -1, oc), mc.player, 1, oc)
      [] OTHER -> Done(rb, "MoveInvalid")

\* is_winner, one checker early: off == 14
is_winner_fourteen(rb, player) == rb[get_raw_board_for_player(player).idx].off = 14

\* Board::is_winner (it panics on Nobody: expect("for player"))
is_winner(rb, player) == rb[get_raw_board_for_player(player).idx].off = 15

\* Board::is_finished
is_finished(rb) == is_winner(rb, Player0) \/ is_winner(rb, Player1)

\* Board::get, reading the second player's board at i instead of the mirrored 23 - i
get_unmirrored(rb, oc) ==
    [res |-> "Ok",
     display |-> [board |-> [i \in 0..LastField |->
                                WrapI8(AsI8(rb[1].board[i]) - AsI8(rb[2].board[i]))],
                  bar |-> <<rb[1].bar, rb[2].bar>>,
                  off |-> <<rb[1].off, rb[2].off>>]]

\* Board::get: the display board (i8 arithmetic on the two `as i8` casts), with
\* get_bar and get_off
get(rb, oc) ==
    LET diff(i) == AsI8(rb[1].board[i]) - AsI8(rb[2].board[23 - i]) IN
    IF oc /\ \E i \in 0..LastField : ~InI8(diff(i))
    THEN [res |-> "Panic", display |-> <<>>]
    ELSE [res |-> "Ok",
          display |-> [board |-> [i \in 0..LastField |-> WrapI8(diff(i))],
                       bar |-> <<rb[1].bar, rb[2].bar>>,
                       off |-> <<rb[1].off, rb[2].off>>]]

\* the fields of a player board that hold a checker, in increasing order (all_fields)
all_fields(pb) == SelectSeq([k \in 1..NumFields |-> k - 1], LAMBDA i : pb.board[i] > 0)

\* field_move without the look at blocked: a candidate for every point that holds a checker
field_move_unchecked(rb, player, dice, i) ==
    IF i >= dice
    THEN <<MoveChecker(player, Field(i), Field(i - dice))>>
    ELSE <<MoveChecker(player, Field(i), Off)>>

\* field_move, bearing off from the field i = dice too (`i > dice` for checked_sub)
field_move_off_by_one(rb, player, dice, i) ==
    IF i > dice
    THEN LET b == blocked(rb, player, i - dice) IN
         IF b.res = "Ok" /\ ~b.flag
         THEN <<MoveChecker(player, Field(i), Field(i - dice))>>
         ELSE <<>>
    ELSE <<MoveChecker(player, Field(i), Off)>>

\* the closure of filter_map in generate_a_possible_moves: <<move>> for Some, <<>> for None
field_move(rb, player, dice, i) ==
    IF i >= dice
    THEN LET b == blocked(rb, player, i - dice) IN
         IF b.res = "Ok" /\ ~b.flag
         THEN <<MoveChecker(player, Field(i), Field(i - dice))>>
         ELSE <<>>
    ELSE <<MoveChecker(player, Field(i), Off)>>

RECURSIVE filter_map(_, _, _, _)
filter_map(rb, player, dice, fields) ==
    IF fields = <<>> THEN <<>>
    ELSE field_move(rb, player, dice, Head(fields))
         \o filter_map(rb, player, dice, Tail(fields))

\* bar_move, returning no candidate instead of MoveInvalid when the field is blocked
bar_move_empty(rb, player, dice) ==
    LET b == blocked(rb, player, dice - 1) IN
    IF b.res # "Ok" THEN [res |-> b.res, moves |-> <<>>]
    ELSE IF ~b.flag
         THEN [res |-> "Ok", moves |-> <<MoveChecker(player, Bar, Field(dice - 1))>>]
         ELSE [res |-> "Ok", moves |-> <<>>]

\* the first branch of generate_a_possible_moves: the player is on the bar and
\* the field 24 - dice is blocked
bar_move(rb, player, dice) ==
    LET b == blocked(rb, player, dice - 1) IN
    IF b.res # "Ok" THEN [res |-> b.res, moves |-> <<>>]
    ELSE IF ~b.flag
         THEN [res |-> "Ok", moves |-> <<MoveChecker(player, Bar, Field(dice - 1))>>]
         ELSE [res |-> "MoveInvalid", moves |-> <<>>]

\* Board::generate_a_possible_moves, for a dice of 1..24
generate_a_possible_moves(rb, player, dice) ==
    LET me == get_raw_board_for_player(player) IN
    IF me.res # "Ok" THEN [res |-> me.res, moves |-> <<>>]
    ELSE LET far == IF rb[me.idx].bar > 0
                    THEN blocked(rb, player, 24 - dice)
                    ELSE [res |-> "Ok", flag |-> FALSE]
         IN  IF far.res # "Ok" THEN [res |-> far.res, moves |-> <<>>]
             ELSE IF far.flag THEN bar_move(rb, player, dice)
             ELSE [res |-> "Ok",
                   moves |-> filter_map(rb, player, dice, all_fields(rb[me.idx]))]

(***************************************************************************)
(* Dice and players (rules/dices.rs).                                      *)
(*                                                                         *)
(* StdRng is a deterministic generator: the values it yields are a         *)
(* function of its seed and of the number of values drawn so far, and of   *)
(* nothing else: two seeds that agree on a roll need not agree on the      *)
(* next.  A seed stands in the model for the values Uniform(1, 6) draws    *)
(* from the generator it seeds; a generator is its seed and the number of  *)
(* values drawn from it.  A generator never runs out and a roll has no     *)
(* precondition: every seed lists one roll more than MaxRolls, the number  *)
(* of rolls the runs of SpecPlayers make with one generator.               *)
(***************************************************************************)
\* the rolls made with one generator
MaxRolls == 4

\* the seed [0u8; 32] and the seed whose first eight bytes are the
\* little-endian 72: the first rolls of each
SeedZero == <<3, 2, 1, 6, 5, 1, 4, 3, 3, 5, 2, 3>>
Seed72 == <<6, 6, 2, 2, 6, 1, 5, 4, 3, 3>>

\* seeds by what they roll: any three rolls out of these four, then the
\* second and the first again, and every first roll there is before four
\* fixed rolls
RollArgs == {<<1, 1>>, <<3, 2>>, <<3, 6>>, <<6, 1>>}
FirstRollArgs == {<<a, b>> : a \in 1..6, b \in 1..6}
Seeds ==
    {SeedZero, Seed72}
        \cup {r1 \o r2 \o r3 \o r2 \o r1 :
                 r1 \in RollArgs, r2 \in RollArgs, r3 \in RollArgs}
        \cup {r1 \o <<2, 5, 4, 4, 6, 3, 1, 2>> : r1 \in FirstRollArgs}

\* Option
None == <<>>
Some(x) == <<x>>

\* StdRng::from_seed
from_seed(seed) == [seed |-> seed, drawn |-> 0]

\* Uniform::new_inclusive(1, 6).sample(&mut rng): the value drawn and the generator after it
sample(rng) == [value |-> rng.seed[rng.drawn + 1], rng |-> [rng EXCEPT !.drawn = @ + 1]]

\* consumed_of, with the flags of a double and of a plain roll exchanged
consumed_swapped(values) ==
    IF values[1] = values[2]
    THEN <<FALSE, FALSE, TRUE, TRUE>>
    ELSE <<FALSE, FALSE, FALSE, FALSE>>

\* the consumed flags of a roll
consumed_of(values) ==
    IF values[1] = values[2]
    THEN <<FALSE, FALSE, FALSE, FALSE>>
    ELSE <<FALSE, FALSE, TRUE, TRUE>>

\* PlayerWithDice::new
PlayerWithDice_new(player, seed) ==
    [player |-> player, rng |-> from_seed(seed), dices |-> None]

\* PlayerWithDice::roll: the Dices it returns and the player after it (its rng has advanced)
PlayerWithDice_roll(self) ==
    LET s0 == sample(self.rng)
        s1 == sample(s0.rng)
        values == <<s0.value, s1.value>>
    IN  [dices |-> [values |-> values, consumed |-> consumed_of(values)],
         self |-> [self EXCEPT !.rng = s1.rng]]

\* Dices::roll draws from thread_rng: any two values
Dices_roll == {[values |-> <<a, b>>, consumed |-> consumed_of(<<a, b>>)] : a \in 1..6, b \in 1..6}

\* tuple_gt, with >= : equal rolls go to the first player
tuple_ge(a, b) == a[1] > b[1] \/ (a[1] = b[1] /\ a[2] >= b[2])

\* `a > b` of two (u8, u8): Rust compares tuples lexicographically
tuple_gt(a, b) == a[1] > b[1] \/ (a[1] = b[1] /\ a[2] > b[2])

\* Players::new
Players_new(first_seed, second_seed) ==
    LET r1 == PlayerWithDice_roll(PlayerWithDice_new(Player0, first_seed))
        r2 == PlayerWithDice_roll(PlayerWithDice_new(Player1, second_seed))
    IN  IF tuple_gt(r1.dices.values, r2.dices.values)
        THEN LET p1 == [r1.self EXCEPT !.dices = Some(r1.dices)] IN
             [player1 |-> p1, player2 |-> r2.self, current |-> p1]
        ELSE LET p2 == [r2.self EXCEPT !.dices = Some(r2.dices)] IN
             [player1 |-> r1.self, player2 |-> p2, current |-> p2]

\* Players::switch, rolling for the outgoing player too and dropping that roll
Players_switch_roll_both(self) ==
    IF self.current.player = self.player1.player
    THEN LET r == PlayerWithDice_roll(self.player2)
             p2 == [r.self EXCEPT !.dices = Some(r.dices)]
         IN  [player1 |-> [PlayerWithDice_roll(self.player1).self EXCEPT !.dices = None],
              player2 |-> p2,
              current |-> p2]
    ELSE LET r == PlayerWithDice_roll(self.player1)
             p1 == [r.self EXCEPT !.dices = Some(r.dices)]
         IN  [player1 |-> p1,
              player2 |-> [PlayerWithDice_roll(self.player2).self EXCEPT !.dices = None],
              current |-> p1]

\* Players::switch, rolling again for the player whose turn it is
Players_switch_stay(self) ==
    IF self.current.player = self.player1.player
    THEN LET r == PlayerWithDice_roll(self.player1)
             p1 == [r.self EXCEPT !.dices = Some(r.dices)]
         IN  [player1 |-> p1,
              player2 |-> [self.player2 EXCEPT !.dices = None],
              current |-> p1]
    ELSE LET r == PlayerWithDice_roll(self.player2)
             p2 == [r.self EXCEPT !.dices = Some(r.dices)]
         IN  [player1 |-> [self.player1 EXCEPT !.dices = None],
              player2 |-> p2,
              current |-> p2]

\* Players::switch, leaving the outgoing player's dices in place
Players_switch_keep(self) ==
    IF self.current.player = self.player1.player
    THEN LET r == PlayerWithDice_roll(self.player2)
             p2 == [r.self EXCEPT !.dices = Some(r.dices)]
         IN  [player1 |-> self.player1, player2 |-> p2, current |-> p2]
    ELSE LET r == PlayerWithDice_roll(self.player1)
             p1 == [r.self EXCEPT !.dices = Some(r.dices)]
         IN  [player1 |-> p1, player2 |-> self.player2, current |-> p1]

\* Players::switch
Players_switch(self) ==
    IF self.current.player = self.player1.player
    THEN LET r == PlayerWithDice_roll(self.player2)
             p2 == [r.self EXCEPT !.dices = Some(r.dices)]
         IN  [player1 |-> [self.player1 EXCEPT !.dices = None],
              player2 |-> p2,
              current |-> p2]
    ELSE LET r == PlayerWithDice_roll(self.player1)
             p1 == [r.self EXCEPT !.dices = Some(r.dices)]
         IN  [player1 |-> p1,
              player2 |-> [self.player2 EXCEPT !.dices = None],
              current |-> p1]

(***************************************************************************)
(* The state machine.                                                      *)
(***************************************************************************)
NoPos == <<>>
NoPlayer == "-"

\* the record of a call
Call(op, player, field, amount, from, to, res, flag, moves) ==
    [op |-> op, player |-> player, field |-> field, amount |-> amount,
     from |-> from, to |-> to, res |-> res, flag |-> flag, moves |-> moves,
     display |-> <<>>, dices |-> <<>>]

NoCall == Call("new", NoPlayer, 0, 0, NoPos, NoPos, "Ok", FALSE, <<>>)

\* a panic ends the run
Running == last.res # "Panic"

\* one more call, of at most `bound`
Tick(bound) == calls < bound /\ calls' = calls + 1

PlayersUnchanged == UNCHANGED <<player1, player2, current, seeds>>

\* board.set(player, field, amount)
Set(player, field, amount) ==
    /\ Running
    /\ LET r == set(raw_board, player, field, amount, overflow_checks) IN
       /\ raw_board' = r.board
       /\ last' = Call("set", player, field, amount, NoPos, NoPos, r.res, FALSE, <<>>)
    /\ UNCHANGED overflow_checks
    /\ PlayersUnchanged

\* board.set_bar(player, amount)
SetBar(player, amount) ==
    /\ Running
    /\ LET r == set_bar(raw_board, player, amount, overflow_checks) IN
       /\ raw_board' = r.board
       /\ last' = Call("set_bar", player, 0, amount, NoPos, NoPos, r.res, FALSE, <<>>)
    /\ UNCHANGED overflow_checks
    /\ PlayersUnchanged

\* board.set_off(player, amount)
SetOff(player, amount) ==
    /\ Running
    /\ LET r == set_off(raw_board, player, amount, overflow_checks) IN
       /\ raw_board' = r.board
       /\ last' = Call("set_off", player, 0, amount, NoPos, NoPos, r.res, FALSE, <<>>)
    /\ UNCHANGED overflow_checks
    /\ PlayersUnchanged

\* board.apply_move(&MoveChecker { player, from, to })
ApplyMove(player, from, to) ==
    /\ Running
    /\ LET r == apply_move(raw_board, MoveChecker(player, from, to), overflow_checks) IN
       /\ raw_board' = r.board
       /\ last' = Call("apply_move", player, 0, 0, from, to, r.res, FALSE, <<>>)
    /\ UNCHANGED overflow_checks
    /\ PlayersUnchanged

\* board.blocked(player, field)
Blocked(player, field) ==
    /\ Running
    /\ LET r == blocked(raw_board, player, field) IN
       last' = Call("blocked", player, field, 0, NoPos, NoPos, r.res, r.flag, <<>>)
    /\ UNCHANGED <<raw_board, overflow_checks>>
    /\ PlayersUnchanged

\* board.generate_a_possible_moves(player, dice)
Generate(player, dice) ==
    /\ Running
    /\ LET r == generate_a_possible_moves(raw_board, player, dice) IN
       last' = Call("generate", player, 0, dice, NoPos, NoPos, r.res, FALSE, r.moves)
    /\ UNCHANGED <<raw_board, overflow_checks>>
    /\ PlayersUnchanged

\* board.get()
Get ==
    /\ Running
    /\ LET r == get(raw_board, overflow_checks) IN
       last' = [Call("get", NoPlayer, 0, 0, NoPos, NoPos, r.res, FALSE, <<>>)
                   EXCEPT !.display = r.display]
    /\ UNCHANGED <<raw_board, overflow_checks>>
    /\ PlayersUnchanged

\* players.switch()
Switch ==
    /\ Tick(MaxSwitches)
    /\ LET r == Players_switch([player1 |-> player1, player2 |-> player2,
                                current |-> current]) IN
       /\ player1' = r.player1
       /\ player2' = r.player2
       /\ current' = r.current
    /\ last' = Call("switch", NoPlayer, 0, 0, NoPos, NoPos, "Ok", FALSE, <<>>)
    /\ UNCHANGED <<raw_board, overflow_checks, seeds>>

\* players.current.roll(): current is a pub field and PlayerWithDice::roll a pub fn.  The
\* roll is returned, not stored; it advances the generator of current, which is a clone.
\* The runs make MaxRolls rolls with it at most
CurrentRoll ==
    /\ current.rng.drawn < 2 * MaxRolls
    /\ LET r == PlayerWithDice_roll(current) IN
       /\ current' = r.self
       /\ last' = [Call("roll", current.player, 0, 0, NoPos, NoPos, "Ok", FALSE, <<>>)
                      EXCEPT !.dices = Some(r.dices)]
    /\ UNCHANGED <<raw_board, overflow_checks, calls, seeds, player1, player2>>

\* Board::new() and Players::new(first_seed, second_seed)
New(first_seed, second_seed) ==
    /\ raw_board = BoardNew
    /\ last = NoCall
    /\ calls = 0
    /\ seeds = <<first_seed, second_seed>>
    /\ LET r == Players_new(first_seed, second_seed) IN
       /\ player1 = r.player1
       /\ player2 = r.player2
       /\ current = r.current

(***************************************************************************)
(* The arguments the calls are made with.                                  *)
(***************************************************************************)
\* fields: 0 (blocked for both players on a new board), the empty pair 1 and
\* 22 (field 1 of one player is field 22 of the other), 23 (two own checkers)
\* and 24, which is no field
FieldArgs == {0, 1, 22, 23, 24}
AmountArgs == {-1, 1, 2}
OffArgs == {1}
DiceArgs == 1..6
\* the positions of a move: the fields above, field 5 (five own checkers), Bar and Off
MoveFields == {0, 1, 5, 22, 23, 24}
PositionArgs == {Bar, Off} \cup {Field(f) : f \in MoveFields}

(***************************************************************************)
(* SpecMoves: a new board, changed by apply_move alone.                    *)
(***************************************************************************)
InitMoves == overflow_checks \in BOOLEAN /\ New(SeedZero, SeedZero)

Move ==
    /\ Tick(MaxMoves)
    /\ \E player \in Player, from \in PositionArgs, to \in PositionArgs :
          ApplyMove(player, from, to)

NextMoves == Move

SpecMoves == InitMoves /\ [][NextMoves]_vars

(***************************************************************************)
(* SpecBoard: a new board, changed by the primitive mutators and read by   *)
(* blocked and generate_a_possible_moves.                                  *)
(***************************************************************************)
InitBoard == overflow_checks \in BOOLEAN /\ New(SeedZero, SeedZero)

BoardSet ==
    /\ Tick(MaxCalls)
    /\ \E player \in Player, field \in FieldArgs, amount \in AmountArgs :
          Set(player, field, amount)

BoardSetBar ==
    /\ Tick(MaxCalls)
    /\ \E player \in Player, amount \in AmountArgs : SetBar(player, amount)

BoardSetOff ==
    /\ Tick(MaxCalls)
    /\ \E player \in Player, amount \in OffArgs : SetOff(player, amount)

BoardBlocked ==
    /\ Tick(MaxCalls)
    /\ \E player \in Player, field \in FieldArgs : Blocked(player, field)

BoardGenerate ==
    /\ Tick(MaxCalls)
    /\ \E player \in Player, dice \in DiceArgs : Generate(player, dice)

NextBoard == BoardSet \/ BoardSetBar \/ BoardSetOff \/ BoardBlocked \/ BoardGenerate

SpecBoard == InitBoard /\ [][NextBoard]_vars

(***************************************************************************)
(* SpecPlayers: Players::new with any two seeds, then switch, and rolls of  *)
(* players.current by whoever holds the Players.                           *)
(***************************************************************************)
InitPlayers ==
    /\ overflow_checks \in BOOLEAN
    /\ \E first_seed \in Seeds, second_seed \in Seeds : New(first_seed, second_seed)

NextPlayers == Switch \/ CurrentRoll

SpecPlayers == InitPlayers /\ [][NextPlayers]_vars

(***************************************************************************)
(* SpecLong: runs of any length over a few calls.  Player0 puts checkers   *)
(* on its field 1 and on its bar, Player1 sets its field 22, which is the  *)
(* same point, and so hits a single checker of Player0 there.              *)
(***************************************************************************)
InitLong == overflow_checks \in BOOLEAN /\ New(SeedZero, SeedZero)

LongPut ==
    /\ UNCHANGED calls
    /\ \E amount \in {1, 127} : Set(Player0, 1, amount)

LongHit == UNCHANGED calls /\ Set(Player1, 22, 0)

LongBar == UNCHANGED calls /\ SetBar(Player0, 127)

NextLong == LongPut \/ LongHit \/ LongBar

SpecLong == InitLong /\ [][NextLong]_vars

(***************************************************************************)
(* SpecOff: runs of any length that bear checkers off a new board.         *)
(* Player0 bears off from each of its four points, Player1 from two of     *)
(* its, and Player0 also moves to Off from what is no field.  (apply_move  *)
(* does not ask that a player's checkers are all home before it bears      *)
(* off.)                                                                   *)
(***************************************************************************)
OffFields0 == {5, 7, 12, 23}
OffFields1 == {7, 23}

InitOff == overflow_checks \in BOOLEAN /\ New(SeedZero, SeedZero)

OffBear0 == UNCHANGED calls /\ \E f \in OffFields0 : ApplyMove(Player0, Field(f), Off)

OffBear1 == UNCHANGED calls /\ \E f \in OffFields1 : ApplyMove(Player1, Field(f), Off)

OffInvalid == UNCHANGED calls /\ \E from \in {Off, Bar, Field(24)} : ApplyMove(Player0, from, Off)

NextOff == OffBear0 \/ OffBear1 \/ OffInvalid

SpecOff == InitOff /\ [][NextOff]_vars

(***************************************************************************)
(* SpecDisplay: a new board, changed by set and shown by get.  The amounts *)
(* reach the largest count a point can hold, 127.                          *)
(***************************************************************************)
MaxShown == 4
ShownFields == {0, 1, 22, 23}
ShownAmounts == {-1, 1, 127}

InitDisplay == overflow_checks \in BOOLEAN /\ New(SeedZero, SeedZero)

DisplaySet ==
    /\ Tick(MaxShown)
    /\ \E player \in {Player0, Player1}, field \in ShownFields, amount \in ShownAmounts :
          Set(player, field, amount)

DisplayGet == UNCHANGED calls /\ Get

NextDisplay == DisplaySet \/ DisplayGet

SpecDisplay == InitDisplay /\ [][NextDisplay]_vars

(***************************************************************************)
(* SpecMixed: a new board, changed by set, set_bar, set_off and            *)
(* apply_move, in any order.                                               *)
(***************************************************************************)
MaxMixed == 3

InitMixed == overflow_checks \in BOOLEAN /\ New(SeedZero, SeedZero)

MixedSet ==
    /\ Tick(MaxMixed)
    /\ \E player \in Player, field \in FieldArgs, amount \in AmountArgs :
          Set(player, field, amount)

MixedSetBar ==
    /\ Tick(MaxMixed)
    /\ \E player \in Player, amount \in AmountArgs : SetBar(player, amount)

MixedSetOff ==
    /\ Tick(MaxMixed)
    /\ \E player \in Player, amount \in OffArgs : SetOff(player, amount)

MixedMove ==
    /\ Tick(MaxMixed)
    /\ \E player \in Player, from \in PositionArgs, to \in PositionArgs :
          ApplyMove(player, from, to)

NextMixed == MixedSet \/ MixedSetBar \/ MixedSetOff \/ MixedMove

SpecMixed == InitMixed /\ [][NextMixed]_vars

(***************************************************************************)
(* SpecPlay: a new board on which candidates are generated and applied:    *)
(* generate_a_possible_moves for a player and a die, then apply_move of    *)
(* one of the candidates it returned.  A second generate in a row reads    *)
(* the same board and is left out.                                         *)
(***************************************************************************)
MaxPlay == 3

InitPlay == overflow_checks \in BOOLEAN /\ New(SeedZero, SeedZero)

PlayGenerate ==
    /\ UNCHANGED calls
    /\ last.op # "generate"
    /\ \E player \in {Player0, Player1}, dice \in DiceArgs : Generate(player, dice)

PlayCandidate ==
    /\ Tick(MaxPlay)
    /\ last.op = "generate" /\ last.res = "Ok"
    /\ \E k \in 1..Len(last.moves) :
          ApplyMove(last.moves[k].player, last.moves[k].from, last.moves[k].to)

NextPlay == PlayGenerate \/ PlayCandidate

SpecPlay == InitPlay /\ [][NextPlay]_vars

(***************************************************************************)
(* What the claims are stated with.                                        *)
(***************************************************************************)
RealPlayers == {Player0, Player1}
Own(p) == IF p = Player0 THEN 1 ELSE 2
Opp(p) == IF p = Player0 THEN 2 ELSE 1

RECURSIVE SumTo(_, _)
SumTo(f, n) == IF n < 0 THEN 0 ELSE f[n] + SumTo(f, n - 1)

\* sum(points) + bar + off of a player board
Total(pb) == SumTo(pb.board, LastField) + pb.bar + pb.off
Total15 == Total(raw_board[1]) = 15 /\ Total(raw_board[2]) = 15

\* the opponent of p holds at least two checkers on the point that is field f of p
Held(rb, p, f) == rb[Opp(p)].board[23 - f] >= 2

(***************************************************************************)
(* C1.  Starting from the default board, after any sequence of apply_move  *)
(* calls that all return Ok, each player has exactly 15 checkers:          *)
(* sum(points) + bar + off = 15.  Stated as: the new board has 15 per      *)
(* player, and an apply_move that returns Ok on a board with 15 per player *)
(* leaves 15 per player.                                                   *)
(***************************************************************************)
C1_MovesKeep15 ==
    [][/\ (calls = 0 => Total15)
       /\ (last'.op = "apply_move" /\ last'.res = "Ok" /\ Total15) => Total15']_vars

\* a checker was hit and has re-entered from the bar, and both players hold 15
C1_Witness ==
    /\ last.op = "apply_move" /\ last.res = "Ok" /\ last.from = Bar
    /\ Total15

(***************************************************************************)
(* C2.  A set(P, f, d) that returns Ok leaves P's count on f equal to its  *)
(* old count plus d, the opponent's count on 23 - f equal to 0, and the    *)
(* opponent's bar larger by the opponent's old count on 23 - f.            *)
(***************************************************************************)
C2_SetEstablishes ==
    [][(last'.op = "set" /\ last'.res = "Ok") =>
          LET p == last'.player
              f == last'.field
          IN  /\ raw_board'[Own(p)].board[f] = raw_board[Own(p)].board[f] + last'.amount
              /\ raw_board'[Opp(p)].board[23 - f] = 0
              /\ raw_board'[Opp(p)].bar =
                    raw_board[Opp(p)].bar + raw_board[Opp(p)].board[23 - f]]_vars

(***************************************************************************)
(* C3.  In every reachable board, for P in {Player0, Player1} and f in     *)
(* 0..23, blocked(P, f) is true exactly when the opponent has at least 2   *)
(* checkers on its point 23 - f; blocked is FieldInvalid for f > 23 and    *)
(* PlayerInvalid for Nobody (on a field of 0..23); a call of blocked       *)
(* returns just that, on the field it is given and on every other, and     *)
(* leaves the board as it was.                                             *)
(***************************************************************************)
BlockedAsSpecified(rb, p, f, r) ==
    IF f > 23 THEN r.res = "FieldInvalid"
    ELSE IF p = Nobody THEN r.res = "PlayerInvalid"
    ELSE r.res = "Ok" /\ (r.flag <=> rb[Opp(p)].board[23 - f] >= 2)

C3_Blocked ==
    [][last'.op = "blocked" =>
          /\ raw_board' = raw_board
          /\ BlockedAsSpecified(raw_board, last'.player, last'.field, last')
          /\ \A f \in 0..(NumFields + 1) :
                BlockedAsSpecified(raw_board, last'.player, f,
                                   blocked(raw_board, last'.player, f))]_vars

\* blocked returned true for a point the opponent took with two checkers in this run
C3_Witness ==
    /\ last.op = "blocked" /\ last.res = "Ok" /\ last.flag
    /\ last.field = 22
    /\ raw_board[Opp(last.player)].board[1] >= 2

(***************************************************************************)
(* C4.  set(player, field, delta) returns FieldInvalid when field > 23;    *)
(* otherwise PlayerInvalid when the player is Nobody; otherwise            *)
(* FieldBlocked when blocked(player, field); otherwise MoveInvalid when    *)
(* the player's count on the field plus delta is negative; otherwise Ok.   *)
(***************************************************************************)
SetAsSpecified(rb, p, f, d) ==
    IF f > 23 THEN "FieldInvalid"
    ELSE IF p = Nobody THEN "PlayerInvalid"
    ELSE IF Held(rb, p, f) THEN "FieldBlocked"
    ELSE IF rb[Own(p)].board[f] + d < 0 THEN "MoveInvalid"
    ELSE "Ok"

C4_SetPrecedence ==
    [][last'.op = "set" =>
          last'.res = SetAsSpecified(raw_board, last'.player, last'.field, last'.amount)]_vars

(***************************************************************************)
(* C5.  apply_move does not roll back.  When the first step of a           *)
(* Field f -> Field t or Bar -> Field t move succeeds and the second fails *)
(* (t is blocked or greater than 23), apply_move returns the second step's *)
(* error, the player's count on f (or the player's bar) is one less than   *)
(* before, and the player's total is one less: 14 instead of 15.           *)
(***************************************************************************)
FirstStepOk(rb, p, from) ==
    IF from = Bar THEN rb[Own(p)].bar >= 1
    ELSE /\ from[2] <= 23
         /\ ~Held(rb, p, from[2])
         /\ rb[Own(p)].board[from[2]] >= 1

SecondStepFails(rb, p, t) == t > 23 \/ Held(rb, p, t)

C5_NoRollback ==
    [][(/\ last'.op = "apply_move"
        /\ last'.player \in RealPlayers
        /\ last'.from[1] \in {"Bar", "Field"}
        /\ last'.to[1] = "Field"
        /\ FirstStepOk(raw_board, last'.player, last'.from)
        /\ SecondStepFails(raw_board, last'.player, last'.to[2])) =>
          LET me == Own(last'.player)
              from == last'.from
          IN  /\ last'.res = IF last'.to[2] > 23 THEN "FieldInvalid" ELSE "FieldBlocked"
              /\ IF from = Bar
                 THEN raw_board'[me].bar = raw_board[me].bar - 1
                 ELSE raw_board'[me].board[from[2]] = raw_board[me].board[from[2]] - 1
              /\ Total(raw_board'[me]) = Total(raw_board[me]) - 1
              /\ (Total(raw_board[me]) = 15 => Total(raw_board'[me]) = 14)]_vars

\* a checker left the bar for a blocked field and is gone: its player holds 14
C5_Witness ==
    /\ last.op = "apply_move" /\ last.res = "FieldBlocked" /\ last.from = Bar
    /\ last.player \in RealPlayers
    /\ raw_board[Own(last.player)].bar = 0
    /\ Total(raw_board[Own(last.player)]) = 14

(***************************************************************************)
(* C6.  For P in {Player0, Player1} and a die of 1..6, when P's bar is 0   *)
(* or blocked(P, 24 - die) is false, generate_a_possible_moves(P, die)     *)
(* returns Ok with exactly one candidate per point i where P has a checker *)
(* and either i < die (Field(i) -> Off) or i >= die and blocked(P, i - die)*)
(* is false (Field(i) -> Field(i - die)), and no other candidate, in       *)
(* strictly increasing order of i.  On the default board with die 1:       *)
(* Field(5)->Field(4), Field(7)->Field(6), Field(23)->Field(22).           *)
(***************************************************************************)
FieldRegime(rb, p, die) == rb[Own(p)].bar = 0 \/ ~Held(rb, p, 24 - die)

Sources(rb, p, die) ==
    {i \in 0..LastField :
        /\ rb[Own(p)].board[i] > 0
        /\ (i < die \/ ~Held(rb, p, i - die))}

Candidate(p, die, i) ==
    IF i < die
    THEN [player |-> p, from |-> <<"Field", i>>, to |-> <<"Off">>]
    ELSE [player |-> p, from |-> <<"Field", i>>, to |-> <<"Field", i - die>>]

FieldMovesAsSpecified(rb, p, die, r) ==
    /\ r.res = "Ok"
    /\ Len(r.moves) = Cardinality(Sources(rb, p, die))
    /\ \A k \in 1..Len(r.moves) :
          /\ r.moves[k].from[1] = "Field"
          /\ r.moves[k].from[2] \in Sources(rb, p, die)
          /\ r.moves[k] = Candidate(p, die, r.moves[k].from[2])
    /\ \A k \in 1..(Len(r.moves) - 1) : r.moves[k].from[2] < r.moves[k + 1].from[2]

DefaultDie1 ==
    <<[player |-> Player0, from |-> <<"Field", 5>>, to |-> <<"Field", 4>>],
      [player |-> Player0, from |-> <<"Field", 7>>, to |-> <<"Field", 6>>],
      [player |-> Player0, from |-> <<"Field", 23>>, to |-> <<"Field", 22>>]>>

C6_FieldMoves ==
    /\ \A p \in RealPlayers, die \in 1..6 :
          FieldRegime(raw_board, p, die) =>
             FieldMovesAsSpecified(raw_board, p, die,
                                   generate_a_possible_moves(raw_board, p, die))
    /\ (last.op = "generate" /\ last.player \in RealPlayers
        /\ FieldRegime(raw_board, last.player, last.amount)) =>
             FieldMovesAsSpecified(raw_board, last.player, last.amount, last)
    /\ (last.op = "generate" /\ last.player = Player0 /\ last.amount = 1
        /\ raw_board = BoardNew) => last.moves = DefaultDie1

\* a call returned a bear-off candidate and skipped a point whose target is
\* blocked, for a player with a checker on the bar
C6_Witness ==
    /\ last.op = "generate" /\ last.res = "Ok" /\ last.player \in RealPlayers
    /\ raw_board[Own(last.player)].bar > 0
    /\ \E k \in 1..Len(last.moves) : last.moves[k].to = Off
    /\ \E i \in 0..LastField :
          /\ raw_board[Own(last.player)].board[i] > 0
          /\ i >= last.amount
          /\ Held(raw_board, last.player, i - last.amount)

(***************************************************************************)
(* C7.  For P in {Player0, Player1} and a die of 1..6, when P's bar is     *)
(* greater than 0 and blocked(P, 24 - die) is true,                        *)
(* generate_a_possible_moves(P, die) returns exactly Bar -> Field(die - 1) *)
(* if blocked(P, die - 1) is false and the error MoveInvalid if it is      *)
(* true: never an empty list, never a field move.                          *)
(***************************************************************************)
BarRegime(rb, p, die) == rb[Own(p)].bar > 0 /\ Held(rb, p, 24 - die)

BarMoveAsSpecified(rb, p, die, r) ==
    IF Held(rb, p, die - 1)
    THEN r.res = "MoveInvalid"
    ELSE /\ r.res = "Ok"
         /\ r.moves = <<[player |-> p, from |-> <<"Bar">>, to |-> <<"Field", die - 1>>]>>

C7_BarMove ==
    /\ \A p \in RealPlayers, die \in 1..6 :
          BarRegime(raw_board, p, die) =>
             BarMoveAsSpecified(raw_board, p, die,
                                generate_a_possible_moves(raw_board, p, die))
    /\ (last.op = "generate" /\ last.player \in RealPlayers
        /\ BarRegime(raw_board, last.player, last.amount)) =>
             BarMoveAsSpecified(raw_board, last.player, last.amount, last)

\* a call returned MoveInvalid: the bar is not empty and both fields are blocked
C7_Witness ==
    /\ last.op = "generate" /\ last.res = "MoveInvalid" /\ last.player \in RealPlayers
    /\ BarRegime(raw_board, last.player, last.amount)

(***************************************************************************)
(* C8.  A player with a checker on the bar must re-enter first: in every   *)
(* reachable board where P's bar is greater than 0, every candidate that   *)
(* generate_a_possible_moves(P, die) returns, for every die of 1..6, has   *)
(* from = Bar.                                                             *)
(***************************************************************************)
C8_BarFirst ==
    (last.op = "generate" /\ last.player \in RealPlayers /\ last.res = "Ok"
     /\ raw_board[Own(last.player)].bar > 0) =>
        \A k \in 1..Len(last.moves) : last.moves[k].from = Bar

(***************************************************************************)
(* C9.  After Players::new and after any number of switch calls, exactly   *)
(* one underlying player holds dice: the one whose id is current.player    *)
(* has dices = Some, the other has dices = None, and current is a copy of  *)
(* the turn holder (same player id, same dice).  Right after Players::new  *)
(* and after a switch the copy is whole, generator included; a roll of     *)
(* current advances the generator of the copy and nothing else.            *)
(***************************************************************************)
C9_OneHolder ==
    /\ player1.player = Player0 /\ player2.player = Player1
    /\ current.player \in RealPlayers
    /\ LET holder == IF current.player = player1.player THEN player1 ELSE player2
           other == IF current.player = player1.player THEN player2 ELSE player1
       IN  /\ Len(holder.dices) = 1
           /\ other.dices = <<>>
           /\ current.player = holder.player
           /\ current.dices = holder.dices
           /\ last.op \in {"new", "switch"} => current = holder

\* after three switches the turn is with Player0, who holds the dice
C9_Witness ==
    /\ last.op = "switch" /\ calls = 3
    /\ current.player = Player0
    /\ Len(player1.dices) = 1 /\ player2.dices = <<>>

(***************************************************************************)
(* C10.  Players::new rolls once for each player and makes Player0 current *)
(* exactly when Player0's pair (v0, v1) is strictly greater than Player1's *)
(* in lexicographic order; otherwise, equal rolls included, Player1 is     *)
(* current.  The winner keeps the pair it rolled as its dices, the loser's *)
(* dices are None.                                                         *)
(***************************************************************************)
\* the first two values a generator seeded with `seed` yields
OpeningRoll(seed) ==
    <<sample(from_seed(seed)).value, sample(sample(from_seed(seed)).rng).value>>

C10_Opening ==
    calls = 0 =>
        LET a == OpeningRoll(seeds[1])
            b == OpeningRoll(seeds[2])
            first == a[1] > b[1] \/ (a[1] = b[1] /\ a[2] > b[2])
        IN  /\ current.player = IF first THEN Player0 ELSE Player1
            /\ IF first
               THEN /\ Len(player1.dices) = 1
                    /\ player1.dices[1].values = a
                    /\ player2.dices = <<>>
               ELSE /\ Len(player2.dices) = 1
                    /\ player2.dices[1].values = b
                    /\ player1.dices = <<>>

\* both players rolled the same pair, and Player1 is current
C10_Witness ==
    /\ calls = 0 /\ last.op = "new"
    /\ OpeningRoll(seeds[1]) = OpeningRoll(seeds[2])
    /\ current.player = Player1
    /\ player2.dices # <<>> /\ player1.dices = <<>>

(***************************************************************************)
(* C11.  Turns strictly alternate.  Every switch changes current.player to *)
(* the other player, clears the outgoing player's dices to None and stores *)
(* one fresh roll (the next two values of the incoming player's generator) *)
(* in the incoming player's dices; so after n switches the current player  *)
(* is the opening player exactly when n is even.                           *)
(***************************************************************************)
OtherPlayer(p) == IF p = Player0 THEN Player1 ELSE Player0

\* the player whom Players::new made current
OpeningPlayer ==
    LET a == OpeningRoll(seeds[1])
        b == OpeningRoll(seeds[2])
    IN  IF a[1] > b[1] \/ (a[1] = b[1] /\ a[2] > b[2]) THEN Player0 ELSE Player1

\* the next two values of a generator
NextPair(rng) == <<rng.seed[rng.drawn + 1], rng.seed[rng.drawn + 2]>>

C11_Alternate ==
    [][/\ (current.player = OpeningPlayer <=> calls % 2 = 0)
       /\ last'.op = "switch" =>
             /\ current'.player = OtherPlayer(current.player)
             /\ (current'.player = OpeningPlayer <=> calls' % 2 = 0)
             /\ IF current.player = Player0
                THEN /\ player1'.dices = <<>>
                     /\ Len(player2.dices) = 0 /\ Len(player2'.dices) = 1
                     /\ player2'.dices[1].values = NextPair(player2.rng)
                     /\ current'.dices = player2'.dices
                ELSE /\ player2'.dices = <<>>
                     /\ Len(player1.dices) = 0 /\ Len(player1'.dices) = 1
                     /\ player1'.dices[1].values = NextPair(player1.rng)
                     /\ current'.dices = player1'.dices]_vars

\* after two switches the turn is back with the opening player, Player0, who
\* holds a roll that is not its opening roll
C11_Witness ==
    /\ last.op = "switch" /\ calls = 2
    /\ OpeningPlayer = Player0 /\ current.player = Player0
    /\ player2.dices = <<>>
    /\ Len(player1.dices) = 1
    /\ player1.dices[1].values # OpeningRoll(seeds[1])

(***************************************************************************)
(* C12.  Every Dices a roll produces (Dices::roll, PlayerWithDice::roll),  *)
(* and so every dices held in a reachable Players state, has both values   *)
(* in 1..6, consumed = (false, false, false, false) exactly when the two   *)
(* values are equal, and consumed = (false, false, true, true) otherwise.  *)
(***************************************************************************)
WellRolled(d) ==
    /\ d.values[1] >= 1 /\ d.values[1] <= 6
    /\ d.values[2] >= 1 /\ d.values[2] <= 6
    /\ (d.consumed = <<FALSE, FALSE, FALSE, FALSE>> <=> d.values[1] = d.values[2])
    /\ (d.values[1] # d.values[2] => d.consumed = <<FALSE, FALSE, TRUE, TRUE>>)

HeldWellRolled(p) == Len(p.dices) = 1 => WellRolled(p.dices[1])

C12_WellRolled ==
    /\ \A d \in Dices_roll : WellRolled(d)
    /\ last.op = "roll" => WellRolled(last.dices[1])
    /\ HeldWellRolled(player1)
    /\ HeldWellRolled(player2)
    /\ HeldWellRolled(current)

\* a switch rolled a double: the current player holds it with four dice to play
C12_Witness ==
    /\ last.op = "switch"
    /\ Len(current.dices) = 1
    /\ current.dices[1].values[1] = current.dices[1].values[2]
    /\ current.dices[1].consumed = <<FALSE, FALSE, FALSE, FALSE>>

(***************************************************************************)
(* C13.  In every state reachable from the default board by apply_move     *)
(* calls, whether they succeed or fail, each player's off count is between *)
(* 0 and 15.  Stated with its reason: off is at most the player's total,   *)
(* and no apply_move makes a player's total larger.                        *)
(***************************************************************************)
OffInRange(rb) ==
    \A i \in {1, 2} : rb[i].off >= 0 /\ rb[i].off <= 15 /\ rb[i].off <= Total(rb[i])

C13_OffInRange ==
    [][/\ OffInRange(raw_board)
       /\ last'.op = "apply_move" =>
             /\ OffInRange(raw_board')
             /\ \A i \in {1, 2} : Total(raw_board'[i]) <= Total(raw_board[i])]_vars

\* Player0 has borne off all its 15 checkers, and one more bear-off has failed
C13_Witness ==
    /\ last.op = "apply_move" /\ last.player = Player0 /\ last.to = Off
    /\ last.from[1] = "Field" /\ last.from[2] <= 23
    /\ last.res = "MoveInvalid"
    /\ raw_board[1].off = 15
    /\ raw_board[2].off > 0

(***************************************************************************)
(* C14.  Two Players values created with the same two seeds and driven by  *)
(* the same number of switch calls are in the same state.  Two runs agree  *)
(* when every run is where one function of the seeds and of the number of  *)
(* switches puts it, and that is what is stated: the state is              *)
(* PlayersAfter(seeds, calls), current player, dice values and consumed    *)
(* flags.  In it each player's generator is where its own seed and the     *)
(* number of its own rolls put it, and the dices a player holds are the    *)
(* roll of that number in its own stream.  A switch leaves the outgoing    *)
(* player's generator alone and advances the incoming player's by exactly  *)
(* one roll (two values).  A roll of players.current between two switches  *)
(* returns the roll its seed and the number of rolls of its generator      *)
(* give, and changes no player, no dices and no generator but that of      *)
(* current, which is a clone.                                              *)
(***************************************************************************)
\* a generator after j rolls, and the j-th roll of its stream
RngAfter(seed, j) == [seed |-> seed, drawn |-> 2 * j]
StreamRoll(seed, j) == <<seed[2 * j - 1], seed[2 * j]>>

\* the player who opens with these seeds
OpeningOf(first_seed, second_seed) ==
    LET a == OpeningRoll(first_seed)
        b == OpeningRoll(second_seed)
    IN  IF a[1] > b[1] \/ (a[1] = b[1] /\ a[2] > b[2]) THEN Player0 ELSE Player1

\* the rolls p has made after n switches: one in Players::new, one per switch to it
RollsAfter(first_seed, second_seed, n, p) ==
    IF p = OpeningOf(first_seed, second_seed) THEN 1 + (n \div 2) ELSE 1 + ((n + 1) \div 2)

\* a player that has made j rolls from its seed, holding the last of them or nothing
PlayerAfter(p, seed, j, holds) ==
    LET roll == StreamRoll(seed, j) IN
    [player |-> p,
     rng |-> RngAfter(seed, j),
     dices |-> IF holds
               THEN <<[values |-> roll,
                       consumed |-> IF roll[1] = roll[2]
                                    THEN <<FALSE, FALSE, FALSE, FALSE>>
                                    ELSE <<FALSE, FALSE, TRUE, TRUE>>]>>
               ELSE <<>>]

PlayersAfter(first_seed, second_seed, n) ==
    LET opening == OpeningOf(first_seed, second_seed)
        turn == IF n % 2 = 0 THEN opening ELSE OtherPlayer(opening)
        j1 == RollsAfter(first_seed, second_seed, n, Player0)
        j2 == RollsAfter(first_seed, second_seed, n, Player1)
        p1 == PlayerAfter(Player0, first_seed, j1, turn = Player0)
        p2 == PlayerAfter(Player1, second_seed, j2, turn = Player1)
    IN  [player1 |-> p1, player2 |-> p2, current |-> IF turn = Player0 THEN p1 ELSE p2]

\* the seed of the player whose turn it is, and the rolls the generator of current has made
CurrentSeed == IF current.player = Player0 THEN seeds[1] ELSE seeds[2]
CurrentRolls == current.rng.drawn \div 2

C14_State ==
    \A after \in {PlayersAfter(seeds[1], seeds[2], calls)} :
    /\ player1 = after.player1
    /\ player2 = after.player2
    /\ current.player = after.current.player
    /\ current.dices = after.current.dices
    /\ last.op \in {"new", "switch"} => current = after.current
    /\ last.op = "roll" =>
          /\ current.rng = RngAfter(CurrentSeed, CurrentRolls)
          /\ last.dices[1].values = StreamRoll(CurrentSeed, CurrentRolls)
          /\ last.dices[1].consumed = consumed_of(StreamRoll(CurrentSeed, CurrentRolls))

C14_Deterministic ==
    [][/\ C14_State
       /\ C14_State'
       /\ last'.op = "switch" =>
             IF current.player = Player0
             THEN /\ player1'.rng = player1.rng
                  /\ player2'.rng = [player2.rng EXCEPT !.drawn = @ + 2]
             ELSE /\ player2'.rng = player2.rng
                  /\ player1'.rng = [player1.rng EXCEPT !.drawn = @ + 2]]_vars

\* after three switches the opening player, Player0, has rolled twice and
\* Player1 three times, each from its own seed
C14_Witness ==
    /\ last.op = "switch" /\ calls = 3
    /\ seeds[1] # seeds[2]
    /\ OpeningPlayer = Player0 /\ current.player = Player1
    /\ player1.rng = RngAfter(seeds[1], 2)
    /\ player2.rng = RngAfter(seeds[2], 3)
    /\ player2.dices[1].values = StreamRoll(seeds[2], 3)

(***************************************************************************)
(* C15.  A new Board is displayed as                                       *)
(* [-2,0,0,0,0,5,0,3,0,0,0,-5,5,0,0,0,-3,0,-5,0,0,0,0,2] with bar (0,0)    *)
(* and off (0,0).  In general display[i] is Player0's count on i minus     *)
(* Player1's count on 23 - i, for every i of 0..23, so a checker of        *)
(* Player1 on its field f shows as a negative amount at index 23 - f.      *)
(***************************************************************************)
NewDisplay ==
    <<-2, 0, 0, 0, 0, 5, 0, 3, 0, 0, 0, -5, 5, 0, 0, 0, -3, 0, -5, 0, 0, 0, 0, 2>>

DisplayAsSpecified(rb, r) ==
    /\ r.res = "Ok"
    /\ DOMAIN r.display.board = 0..23
    /\ \A i \in 0..23 : r.display.board[i] = rb[1].board[i] - rb[2].board[23 - i]
    /\ \A f \in 0..23 :
          rb[2].board[f] > 0 =>
             /\ r.display.board[23 - f] < 0
             /\ r.display.board[23 - f] = 0 - rb[2].board[f]
    /\ rb = BoardNew =>
          /\ \A i \in 0..23 : r.display.board[i] = NewDisplay[i + 1]
          /\ r.display.bar = <<0, 0>>
          /\ r.display.off = <<0, 0>>

C15_Display ==
    /\ DisplayAsSpecified(raw_board, get(raw_board, overflow_checks))
    /\ last.op = "get" => DisplayAsSpecified(raw_board, last)

\* get was called after Player0 put 127 checkers on its field 1 and Player1
\* one checker on its field 1, which is index 22 of the display
C15_Witness ==
    /\ last.op = "get" /\ last.res = "Ok"
    /\ raw_board[1].board[1] = 127 /\ last.display.board[1] = 127
    /\ raw_board[2].board[1] = 1 /\ last.display.board[22] = -1

(***************************************************************************)
(* C16.  In every state reachable from the default board by set, set_bar,  *)
(* set_off and apply_move, a player's own point is never blocked for that  *)
(* player: if P has at least one checker on field f then blocked(P, f) is  *)
(* false, so set(P, f, -1) returns Ok.  A set that returned FieldBlocked   *)
(* was therefore made on a field where the player had no checker.          *)
(***************************************************************************)
OwnPointFree(rb, p, f) ==
    rb[Own(p)].board[f] >= 1 =>
        /\ blocked(rb, p, f) = [res |-> "Ok", flag |-> FALSE]
        /\ set(rb, p, f, -1, overflow_checks).res = "Ok"

C16_OwnPointFree ==
    /\ \A p \in RealPlayers, f \in 0..LastField : OwnPointFree(raw_board, p, f)
    /\ (last.op = "set" /\ last.res = "FieldBlocked") =>
          raw_board[Own(last.player)].board[last.field] = 0

\* Player1 took Player0's point 23 (its own field 0) by a hit, and then took
\* its checker off that point again
C16_Witness ==
    /\ last.op = "set" /\ last.player = Player1 /\ last.field = 0 /\ last.amount = -1
    /\ last.res = "Ok"
    /\ raw_board[1].bar = 1
    /\ raw_board[1].board[23] = 0

(***************************************************************************)
(* C17.  apply_move with a (from, to) other than (Bar, Field),             *)
(* (Field, Field) and (Field, Off), that is (Bar, Bar), (Bar, Off),        *)
(* (Field, Bar) and (Off, anything), returns MoveInvalid and leaves the    *)
(* board unchanged, for every player, Nobody included.                     *)
(***************************************************************************)
SupportedMove(from, to) ==
    \/ from[1] = "Bar" /\ to[1] = "Field"
    \/ from[1] = "Field" /\ to[1] = "Field"
    \/ from[1] = "Field" /\ to[1] = "Off"

C17_OtherMoves ==
    [][(last'.op = "apply_move" /\ ~SupportedMove(last'.from, last'.to)) =>
          /\ last'.res = "MoveInvalid"
          /\ raw_board' = raw_board]_vars

\* a player with a checker on the bar asked to bear it off from there
C17_Witness ==
    /\ last.op = "apply_move" /\ last.from = <<"Bar">> /\ last.to = <<"Off">>
    /\ last.res = "MoveInvalid"
    /\ last.player \in RealPlayers
    /\ raw_board[Own(last.player)].bar = 1
    /\ Total15

(***************************************************************************)
(* C18.  set, set_bar and set_off are all-or-nothing: when one of them     *)
(* returns an error (FieldInvalid, PlayerInvalid, FieldBlocked or          *)
(* MoveInvalid), both players' points, bar and off are what they were      *)
(* before the call; a set that fails performs no hit.                      *)
(***************************************************************************)
ErrorsReturned == {"FieldInvalid", "PlayerInvalid", "FieldBlocked", "MoveInvalid"}

C18_AllOrNothing ==
    [][(last'.op \in {"set", "set_bar", "set_off"} /\ last'.res \in ErrorsReturned) =>
          /\ raw_board' = raw_board
          /\ \A i \in {1, 2} :
                /\ raw_board'[i].board = raw_board[i].board
                /\ raw_board'[i].bar = raw_board[i].bar
                /\ raw_board'[i].off = raw_board[i].off]_vars

\* a set of -1 on an empty field whose point holds one checker of the opponent
\* returned MoveInvalid, and the opponent's checker is still there, not on the bar
C18_Witness ==
    /\ last.op = "set" /\ last.res = "MoveInvalid" /\ last.amount = -1
    /\ last.player \in RealPlayers /\ last.field <= 23
    /\ raw_board[Own(last.player)].board[last.field] = 0
    /\ raw_board[Opp(last.player)].board[23 - last.field] = 1
    /\ raw_board[Opp(last.player)].bar = 0

(***************************************************************************)
(* C19.  No point is occupied by both players: in every state reachable    *)
(* from the default board by set, set_bar, set_off and apply_move calls,   *)
(* successful or failing, for every i of 0..23 Player0's count on i and    *)
(* Player1's count on 23 - i are not both greater than 0, so the absolute  *)
(* value of display[i] is the count of the player who occupies i.          *)
(***************************************************************************)
Abs(x) == IF x < 0 THEN 0 - x ELSE x

C19_OneOccupant ==
    /\ \A i \in 0..LastField :
          ~(raw_board[1].board[i] > 0 /\ raw_board[2].board[23 - i] > 0)
    /\ LET shown == get(raw_board, overflow_checks) IN
       /\ shown.res = "Ok"
       /\ \A i \in 0..LastField :
             /\ shown.display.board[i] > 0 =>
                   Abs(shown.display.board[i]) = raw_board[1].board[i]
             /\ shown.display.board[i] < 0 =>
                   Abs(shown.display.board[i]) = raw_board[2].board[23 - i]
             /\ shown.display.board[i] = 0 =>
                   raw_board[1].board[i] = 0 /\ raw_board[2].board[23 - i] = 0

\* Player1 moved a checker onto the point where Player0 had one checker left:
\* Player0's checker is on the bar and the point is Player1's alone
C19_Witness ==
    /\ last.op = "apply_move" /\ last.res = "Ok" /\ last.player = Player1
    /\ last.to = <<"Field", 0>>
    /\ raw_board[2].board[0] = 1
    /\ raw_board[1].board[23] = 0
    /\ raw_board[1].bar = 1

(***************************************************************************)
(* C20.  Every candidate that generate_a_possible_moves(P, die) returns,   *)
(* for P in {Player0, Player1} and a die of 1..6, in a state reached from  *)
(* the default board by successful apply_move calls, is applicable:        *)
(* apply_move of the candidate on the same board returns Ok, and the board *)
(* after it still has 15 checkers per player.                              *)
(***************************************************************************)
Applicable(rb, mc) ==
    LET r == apply_move(rb, mc, overflow_checks) IN
    /\ r.res = "Ok"
    /\ Total(r.board[1]) = 15
    /\ Total(r.board[2]) = 15

C20_Applicable ==
    /\ Total15
    /\ last.op = "apply_move" => last.res = "Ok"
    /\ (last.op = "generate" /\ last.res = "Ok") =>
          \A k \in 1..Len(last.moves) : Applicable(raw_board, last.moves[k])

\* a checker that was hit has re-entered by the candidate generated for it
C20_Witness ==
    /\ last.op = "apply_move" /\ last.res = "Ok" /\ last.from = <<"Bar">>
    /\ calls = 3
    /\ Total15

(***************************************************************************)
(* C21.  In a state reached from the default board by apply_move calls, a  *)
(* successful apply_move by P changes the opponent's half only by a hit on *)
(* the destination.  The opponent's off is unchanged; the opponent's       *)
(* points are unchanged except possibly at 23 - t for a destination        *)
(* Field(t), where a single opposing checker is removed and the opponent's *)
(* bar grows by exactly 1; the removal from the source field hits nothing; *)
(* a Field -> Off move leaves the opponent's half as it was.  The          *)
(* opponent's bar grows by at most 1 in any move.                          *)
(***************************************************************************)
HitOrNothing(before, after, point) ==
    \/ /\ before.board[point] = 0
       /\ after = before
    \/ /\ before.board[point] = 1
       /\ after.board[point] = 0
       /\ after.bar = before.bar + 1

OpponentFrame(before, after, from, to) ==
    /\ after.off = before.off
    /\ after.bar - before.bar \in {0, 1}
    /\ from[1] = "Field" => before.board[23 - from[2]] = 0
    /\ to[1] = "Off" => after = before
    /\ to[1] = "Field" =>
          /\ \A i \in 0..LastField : i # 23 - to[2] => after.board[i] = before.board[i]
          /\ HitOrNothing(before, after, 23 - to[2])

C21_OpponentFrame ==
    [][(last'.op = "apply_move" /\ last'.player \in RealPlayers) =>
          LET o == Opp(last'.player) IN
          /\ raw_board'[o].bar - raw_board[o].bar \in {0, 1}
          /\ last'.res = "Ok" =>
                OpponentFrame(raw_board[o], raw_board'[o], last'.from, last'.to)]_vars

\* the second move of a run put a checker on a point where the opponent had one
\* checker: that checker is on the opponent's bar and the point is the mover's
C21_Witness ==
    /\ last.op = "apply_move" /\ last.res = "Ok" /\ last.player \in RealPlayers
    /\ last.from[1] = "Field" /\ last.to[1] = "Field"
    /\ calls = 2
    /\ raw_board[Opp(last.player)].bar = 1
    /\ raw_board[Opp(last.player)].board[23 - last.to[2]] = 0
    /\ raw_board[Own(last.player)].board[last.to[2]] >= 1
    /\ Total15

(***************************************************************************)
(* C22.  Winning is permanent under moves.  is_winner(P) is true exactly   *)
(* when P's off is 15, and is_finished() exactly when is_winner holds for  *)
(* Player0 or Player1.  In a run from the default board that uses          *)
(* apply_move only, no call, successful or failing, makes a player's off   *)
(* smaller, and once is_finished() is true it is true after every further  *)
(* call.                                                                   *)
(***************************************************************************)
WinnerAsSpecified(rb) ==
    /\ is_winner(rb, Player0) <=> rb[1].off = 15
    /\ is_winner(rb, Player1) <=> rb[2].off = 15
    /\ is_finished(rb) <=> (rb[1].off = 15 \/ rb[2].off = 15)

C22_WinnerStays ==
    [][last'.op = "apply_move" =>
          /\ WinnerAsSpecified(raw_board)
          /\ WinnerAsSpecified(raw_board')
          /\ raw_board'[1].off >= raw_board[1].off
          /\ raw_board'[2].off >= raw_board[2].off
          /\ is_finished(raw_board) => is_finished(raw_board')]_vars

\* Player0 has won before Player1 bore anything off, and has since asked for
\* one more bear-off, which failed: the game is still finished
C22_Witness ==
    /\ last.op = "apply_move" /\ last.player = Player0 /\ last.res = "MoveInvalid"
    /\ last.from[1] = "Field" /\ last.from[2] <= 23 /\ last.to = <<"Off">>
    /\ is_winner(raw_board, Player0) /\ ~is_winner(raw_board, Player1)
    /\ is_finished(raw_board)
    /\ raw_board[2].off = 0

Spec == SpecBoard

====
